---- MODULE Spec2Model ----
(***************************************************************************)
(* Model of the session core of the realtime voice/image client:           *)
(* src/hooks/useRealtime.ts (event bus, audio playback queue, response     *)
(* lifecycle tracker, transport session, mic control).                     *)
(*                                                                         *)
(* The host is a single-threaded event loop: every action below is one     *)
(* callback or one continuation of an async function, run to its next      *)
(* suspension point.                                                       *)
(***************************************************************************)
EXTENDS Integers, Sequences, FiniteSets, TLC

\* ------------------------------------------------------------------ bounds
MaxFrag == 3        \* audio fragments enqueued in one run
MaxWire == 3        \* outbound messages recorded on the wire
MaxDiag == 2        \* "not ready" diagnostics recorded
MaxMicStarts == 2   \* startMic() calls in one run
MaxReplaceQ == 2    \* replaceTrack() operations pending on the sender
RaiseCap == 2       \* handler exceptions counted (the count stops there)
MaxCaptures == 1    \* screenshot captures suspended at one await
MaxShareWire == 5   \* outbound messages recorded when captures send
MaxVisits == 4      \* handler invocations followed in one dispatch

\* ------------------------------------------------------------- value sets
NULL == "null"
ResponseIds == {"r1", "r2"}
NoId == "none"                       \* response.created without response.id
Handlers == {"h1", "h2"}
Throwing == {"h1"}                   \* handlers that raise when invoked

ResetTypes == {"response.cancelled", "output_audio_buffer.cleared"}
AudioTypes == {"response.audio.delta", "output_audio_buffer.audio_added"}
AudioPayloads == {"ok", "empty", "bad"}
  \* ok: base64 of a whole number of 16-bit samples; empty: "" or absent;
  \* bad: atob() or the Int16Array view throws

VARIABLES
  \* --- initConnection / transport (useRealtime.ts 290-537)
  setup,            \* position of initConnection
  pc,               \* React state pc is set (non-null)
  dataChannel,      \* React state dataChannel is set (non-null)
  chReady,          \* channel.readyState: "none" before creation
  pcClosed,         \* peerConnection.close() has run
  isConnected,      \* React state isConnected
  senders,          \* pc.getSenders(): the track of each sender, 0 = null
  signalingCalls,   \* fetch('/api/realtime/session') calls made
  setupLog,         \* what initConnection has done so far, in order
  connectionState,  \* React state connectionState
  pcState,          \* peerConnection.connectionState while it is not closed
  audioElement,     \* audioElementRef.current is set (the playback sink)
  closeCalls,       \* close() calls made on the channel and the connection
  scopeEnded,       \* the component that owns the hook has unmounted
  capturing,        \* captureAndSend() calls suspended at enableAudio()
  \* --- mic (156-240)
  micStarts,        \* startMic() calls that went past the pc check
  micTasks,         \* suspended startMic() calls: task id -> position
  replaceQ,         \* replaceTrack() operations not yet applied
  liveTracks,       \* capture tracks obtained and not stopped
  localStream,      \* localStreamRef.current, 0 = null
  isMicActive,      \* React state isMicActive
  \* --- lifecycle tracker (40)
  activeResponse,   \* activeResponseRef.current
  \* --- audio playback queue (38-39, 74-137)
  audioQueue,       \* audioQueueRef.current: fragment ids, head first
  isPlaying,        \* isPlayingRef.current
  rendering,        \* fragments whose render a drain loop is awaiting
  \* --- event bus (34, 43-71)
  eventHandlers,    \* Map type -> Set of handlers (insertion order)
  \* --- observation (what a test harness would record)
  wire,             \* messages transmitted on the channel, in order
  diag,             \* console.warn('DataChannel not ready ...') count
  dropped,          \* ids of send() events that were dropped
  sendCalls,        \* send() calls made by the UI layer
  fragCount,        \* fragments pushed so far (fragment n is the n-th)
  renderLog,        \* fragments in the order their render started
  discarded,        \* fragments removed from the queue by a reset
  resetMark,        \* fragCount at the latest reset
  lastLifecycle,    \* kind of the latest lifecycle event received
  lastTracked,      \* same, counting only response.created with an id
  registered,       \* <<type, handler>> pairs on()-ed and not off()-ed
  removed,          \* <<type, handler>> pairs off()-ed and not on()-ed again
  lastEmit,         \* type of the emit of the latest message, "none" if
                    \* its handler did not reach emit
  lastInvoked,      \* handlers invoked by the latest emit, in order
  lastPayload,      \* what the latest emit handed to the handlers
  emitRaised,       \* the latest emit let a handler's exception out
  raises,           \* emits so far in which a handler raised, up to RaiseCap
  emitSaw,          \* the latest emit: whether the bookkeeping of its
                    \* message changed the tracker or the queue, whether
                    \* the handlers saw them as the bookkeeping left them,
                    \* and what the tracker held before the message
  busCall,          \* the latest on/off call: op, type, handler and whether
                    \* the handler was registered for the type before it
  raised,           \* the latest facade call, or the handler of the latest
                    \* undecodable message, let an exception out
  lastOp            \* the operation that produced this state

vars == << setup, pc, dataChannel, chReady, pcClosed, isConnected, senders,
           signalingCalls, micStarts, micTasks, replaceQ, liveTracks,
           localStream, isMicActive, activeResponse, audioQueue, isPlaying,
           rendering, eventHandlers, wire, diag, dropped, sendCalls,
           fragCount, renderLog, discarded, resetMark, lastLifecycle,
           lastTracked, registered, removed, lastEmit, lastInvoked, raised,
           lastOp, connectionState, audioElement, closeCalls, scopeEnded,
           capturing, emitRaised, raises, emitSaw, busCall, pcState,
           lastPayload, setupLog >>

transportVars == << setup, pc, dataChannel, chReady, pcClosed, isConnected,
                    senders, signalingCalls, setupLog >>
micVars == << micStarts, micTasks, replaceQ, liveTracks, localStream,
              isMicActive >>
audioVars == << audioQueue, isPlaying, rendering, fragCount, renderLog,
                discarded, resetMark >>
trackerVars == << activeResponse, lastLifecycle, lastTracked >>
busVars == << eventHandlers, registered, removed, lastEmit, lastInvoked,
             lastPayload,
             emitRaised, raises, emitSaw, busCall >>
scopeVars == << connectionState, pcState, audioElement, closeCalls,
               scopeEnded, capturing >>
sendVars == << wire, diag, dropped, sendCalls, raised >>

Range(s) == { s[i] : i \in DOMAIN s }

\* ------------------------------------------------------------------- Init
\* State of the hook after its first render, before the mount effect runs.
Init ==
  /\ setup = "unmounted"
  /\ pc = FALSE
  /\ dataChannel = FALSE
  /\ chReady = "none"
  /\ pcClosed = FALSE
  /\ isConnected = FALSE
  /\ senders = << >>
  /\ signalingCalls = 0
  /\ setupLog = << >>
  /\ micStarts = 0
  /\ micTasks = << >>
  /\ replaceQ = << >>
  /\ liveTracks = {}
  /\ localStream = 0
  /\ isMicActive = FALSE
  /\ activeResponse = NULL
  /\ audioQueue = << >>
  /\ isPlaying = FALSE
  /\ rendering = {}
  /\ eventHandlers = << >>
  /\ wire = << >>
  /\ diag = 0
  /\ dropped = {}
  /\ sendCalls = 0
  /\ fragCount = 0
  /\ renderLog = << >>
  /\ discarded = {}
  /\ resetMark = 0
  /\ lastLifecycle = "none"
  /\ lastTracked = "none"
  /\ registered = {}
  /\ removed = {}
  /\ lastEmit = "none"
  /\ lastInvoked = << >>
  /\ lastPayload = "none"
  /\ raised = FALSE
  /\ lastOp = "init"
  /\ connectionState = "new"
  /\ pcState = "new"
  /\ audioElement = FALSE
  /\ closeCalls = [channel |-> 0, connection |-> 0]
  /\ scopeEnded = FALSE
  /\ capturing = [play |-> 0, shot |-> 0, image |-> 0]
  /\ emitRaised = FALSE
  /\ raises = 0
  /\ emitSaw = [changed |-> FALSE, updated |-> TRUE, tracker |-> NULL]
  /\ busCall = [op |-> "none", type |-> "none", handler |-> "none",
                was |-> FALSE]

\* ------------------------------------------------- setup (initConnection)
initChannelFirst ==
  << "createDataChannel", "ontrack", "addTransceiver", "createOffer" >>

\* the synchronous start of initConnection, in statement order: ontrack is
\* assigned (line 310), addTransceiver('audio') (339),
\* createDataChannel('oai-events') (345), createOffer() is called (503)
initSync == << "ontrack", "addTransceiver", "createDataChannel", "createOffer" >>

\* after fetch() resolved, lines 513-521: !response.ok throws; otherwise
\* the answer is read and setRemoteDescription is called
afterFetch(ok) ==
  IF ok THEN << "answerOk", "setRemoteDescription" >> ELSE << "answerError" >>

\* useEffect body: initConnection() up to `await createOffer()`:
\* new RTCPeerConnection, handlers, addTransceiver('audio'),
\* createDataChannel('oai-events').
Mount ==
  /\ setup = "unmounted"
  /\ setup' = "createOffer"
  /\ setupLog' = setupLog \o initSync
  /\ senders' = << 0 >>
  /\ chReady' = "connecting"
  /\ lastOp' = "mount"
  /\ UNCHANGED scopeVars
  /\ UNCHANGED << pc, dataChannel, pcClosed, isConnected, signalingCalls >>
  /\ UNCHANGED << micVars, audioVars, trackerVars, busVars, sendVars >>

\* continuation after createOffer(): setLocalDescription(offer)
OfferCreated ==
  /\ setup = "createOffer"
  /\ setup' = "setLocal"
  /\ setupLog' = Append(setupLog, "setLocalDescription")
  /\ lastOp' = "offerCreated"
  /\ UNCHANGED scopeVars
  /\ UNCHANGED << pc, dataChannel, chReady, pcClosed, isConnected, senders,
                  signalingCalls >>
  /\ UNCHANGED << micVars, audioVars, trackerVars, busVars, sendVars >>

\* continuation after setLocalDescription(): fetch('/api/realtime/session')
LocalDescriptionSet ==
  /\ setup = "setLocal"
  /\ setup' = "fetch"
  /\ signalingCalls' = signalingCalls + 1
  /\ setupLog' = Append(setupLog, "fetch")
  /\ lastOp' = "localSet"
  /\ UNCHANGED scopeVars
  /\ UNCHANGED << pc, dataChannel, chReady, pcClosed, isConnected, senders >>
  /\ UNCHANGED << micVars, audioVars, trackerVars, busVars, sendVars >>

\* continuation after fetch(): response.ok, response.text(),
\* setRemoteDescription(answer); !response.ok throws into the catch
SignalingAnswered(ok) ==
  /\ setup = "fetch"
  /\ setup' = IF ok THEN "setRemote" ELSE "failed"
  /\ setupLog' = setupLog \o afterFetch(ok)
  /\ lastOp' = IF ok THEN "answered" ELSE "setupFailed"
  /\ UNCHANGED scopeVars
  /\ UNCHANGED << pc, dataChannel, chReady, pcClosed, isConnected, senders,
                  signalingCalls >>
  /\ UNCHANGED << micVars, audioVars, trackerVars, busVars, sendVars >>

\* an awaited setup step rejects: the catch logs and initConnection ends
SetupStepRejects ==
  /\ setup \in {"createOffer", "setLocal", "fetch", "setRemote"}
  /\ setup' = "failed"
  /\ setupLog' = Append(setupLog, "rejected")
  /\ lastOp' = "setupFailed"
  /\ UNCHANGED scopeVars
  /\ UNCHANGED << pc, dataChannel, chReady, pcClosed, isConnected, senders,
                  signalingCalls >>
  /\ UNCHANGED << micVars, audioVars, trackerVars, busVars, sendVars >>

\* continuation after setRemoteDescription(): setPc, setDataChannel
RemoteDescriptionSet ==
  /\ setup = "setRemote"
  /\ setup' = "done"
  /\ pc' = TRUE
  /\ dataChannel' = TRUE
  /\ setupLog' = Append(setupLog, "expose")
  /\ lastOp' = "remoteSet"
  /\ UNCHANGED scopeVars
  /\ UNCHANGED << chReady, pcClosed, isConnected, senders, signalingCalls >>
  /\ UNCHANGED << micVars, audioVars, trackerVars, busVars, sendVars >>

\* the steps RTCPeerConnection.connectionState takes once the transports
\* have started
StateSteps ==
  { << "new", "connecting" >>, << "connecting", "connected" >>,
    << "connecting", "failed" >>, << "connected", "disconnected" >>,
    << "disconnected", "connected" >>, << "disconnected", "failed" >> }

\* onconnectionstatechange, lines 298-307:
\* setConnectionState(peerConnection.connectionState). The transports
\* start once both descriptions are set.
ConnectionStateChange(to) ==
  /\ setup = "done"
  /\ ~pcClosed
  /\ << pcState, to >> \in StateSteps
  /\ pcState' = to
  /\ connectionState' = to
  /\ lastOp' = "connectionStateChange"
  /\ UNCHANGED << audioElement, closeCalls, scopeEnded, capturing >>
  /\ UNCHANGED << transportVars, micVars, audioVars, trackerVars, busVars,
                  sendVars >>

WireMsg(type, id) == [type |-> type, id |-> id]

noConfig(w) == w

\* channel.onopen, lines 353-378: channel.send of the session.update text,
\* on the channel itself and not through send()
configOnOpen(w) == Append(w, WireMsg("session.update", 0))

\* channel.onopen: setIsConnected(true), channel.send(session.update).
\* The transport opens the channel only once the answer has been applied.
ChannelOpen ==
  /\ setup = "done"
  /\ chReady = "connecting"
  /\ ~pcClosed
  /\ chReady' = "open"
  /\ isConnected' = TRUE
  /\ wire' = configOnOpen(wire)
  /\ lastOp' = "channelOpen"
  /\ UNCHANGED scopeVars
  /\ UNCHANGED << setup, pc, dataChannel, pcClosed, senders, signalingCalls,
                  setupLog >>
  /\ UNCHANGED << diag, dropped, sendCalls, raised >>
  /\ UNCHANGED << micVars, audioVars, trackerVars, busVars >>

\* channel.onclose: the remote end or the transport closed the channel
\* (a channel cannot open or close before the answer has been applied)
ChannelClose ==
  /\ chReady \in {"connecting", "open", "closing"}
  /\ setup = "done"
  /\ chReady' = "closed"
  /\ isConnected' = FALSE
  /\ lastOp' = "channelClose"
  /\ UNCHANGED scopeVars
  /\ UNCHANGED << setup, pc, dataChannel, pcClosed, senders, signalingCalls,
                  setupLog >>
  /\ UNCHANGED << micVars, audioVars, trackerVars, busVars, sendVars >>

\* the remote end starts to close the channel: readyState becomes
\* "closing" one task before it becomes "closed" and the close event
\* fires. The hook assigns onopen, onclose, onmessage and onerror only
\* (lines 349, 381, 386, 499), so no code of it runs here
ChannelClosing ==
  /\ chReady = "open"
  /\ ~pcClosed
  /\ chReady' = "closing"
  /\ lastOp' = "channelClosing"
  /\ UNCHANGED scopeVars
  /\ UNCHANGED << setup, pc, dataChannel, pcClosed, isConnected, senders,
                  signalingCalls, setupLog >>
  /\ UNCHANGED << micVars, audioVars, trackerVars, busVars, sendVars >>

SetupSteps ==
  \/ Mount
  \/ OfferCreated
  \/ LocalDescriptionSet
  \/ SignalingAnswered(TRUE)
  \/ RemoteDescriptionSet
  \/ ChannelOpen

\* -------------------------------------------------------------- event bus
SetAddAlways(s, h) == Append(s, h)

\* a JS Set keeps insertion order; add of a member and delete of a
\* non-member change nothing
SetAdd(s, h) == IF h \in Range(s) THEN s ELSE Append(s, h)

SetDelete(s, h) == SelectSeq(s, LAMBDA x : x # h)

\* on(type, handler), lines 43-48
on(map, t, h) ==
  LET m1 == IF t \in DOMAIN map THEN map ELSE (t :> << >>) @@ map
  IN  [m1 EXCEPT ![t] = SetAdd(m1[t], h)]

offDropsType(map, t, h) ==
  IF t \notin DOMAIN map THEN map
  ELSE IF DOMAIN map = {t} THEN << >>
  ELSE [k \in DOMAIN map \ {t} |-> map[k]]

\* off(type, handler), lines 50-58: the type's entry goes when its set
\* becomes empty
off(map, t, h) ==
  IF t \notin DOMAIN map THEN map
  ELSE LET s == SetDelete(map[t], h)
       IN  IF Len(s) = 0
           THEN IF DOMAIN map = {t} THEN << >>
                ELSE [k \in DOMAIN map \ {t} |-> map[k]]
           ELSE [map EXCEPT ![t] = s]

\* the handlers of hs up to and including the first one that raises
UpToFirstRaise(hs) ==
  IF \E i \in DOMAIN hs : hs[i] \in Throwing
  THEN SubSeq(hs, 1, CHOOSE i \in DOMAIN hs :
                       /\ hs[i] \in Throwing
                       /\ \A j \in 1..(i - 1) : hs[j] \notin Throwing)
  ELSE hs

dispatchUnguarded(hs) ==
  [invoked |-> UpToFirstRaise(hs),
   raised |-> \E i \in DOMAIN hs : hs[i] \in Throwing]

\* handlers.forEach, lines 63-69: each call sits in its own try/catch, so
\* every handler of the set is invoked and no exception leaves the loop
dispatch(hs) == [invoked |-> hs, raised |-> FALSE]

\* emit(type, data), lines 60-71: the handlers invoked, in order
emit(map, t) ==
  IF t \in DOMAIN map THEN dispatch(map[t]).invoked ELSE << >>

\* whether emit(type, data) lets an exception out to its caller
emitRaises(map, t) ==
  IF t \in DOMAIN map THEN dispatch(map[t]).raised ELSE FALSE

BusCall(op, t, h, was) == [op |-> op, type |-> t, handler |-> h, was |-> was]

\* a UI-layer call of on(type, handler)
On(t, h) ==
  /\ ~scopeEnded
  /\ eventHandlers' = on(eventHandlers, t, h)
  /\ registered' = registered \cup {<< t, h >>}
  /\ removed' = removed \ {<< t, h >>}
  /\ busCall' = BusCall("on", t, h, << t, h >> \in registered)
  /\ raised' = FALSE
  /\ lastOp' = "on"
  /\ UNCHANGED scopeVars
  /\ UNCHANGED << lastEmit, lastInvoked, lastPayload, emitRaised, raises,
                  emitSaw >>
  /\ UNCHANGED << wire, diag, dropped, sendCalls >>
  /\ UNCHANGED << transportVars, micVars, audioVars, trackerVars >>

\* a UI-layer call of off(type, handler)
Off(t, h) ==
  /\ ~scopeEnded
  /\ eventHandlers' = off(eventHandlers, t, h)
  /\ registered' = registered \ {<< t, h >>}
  /\ removed' = IF << t, h >> \in registered THEN removed \cup {<< t, h >>}
                ELSE removed
  /\ busCall' = BusCall("off", t, h, << t, h >> \in registered)
  /\ raised' = FALSE
  /\ lastOp' = "off"
  /\ UNCHANGED scopeVars
  /\ UNCHANGED << lastEmit, lastInvoked, lastPayload, emitRaised, raises,
                  emitSaw >>
  /\ UNCHANGED << wire, diag, dropped, sendCalls >>
  /\ UNCHANGED << transportVars, micVars, audioVars, trackerVars >>

\* ------------------------------------- handlers that call on/off in emit
\* What a handler does with the bus when it is invoked: nothing, off and
\* then on of itself for the type being dispatched, or on of the other
\* handler for that type
Behaviours == {"plain", "reRegister", "addOther"}

OtherHandler(h) == CHOOSE g \in Handlers : g # h

\* A Set that is being iterated: its entry list, where delete() leaves an
\* empty slot (NULL) and add() of a value that is not in the Set appends
LiveDelete(es, h) == [i \in DOMAIN es |-> IF es[i] = h THEN NULL ELSE es[i]]

LiveAdd(es, h) == IF h \in Range(es) THEN es ELSE Append(es, h)

Live(es) == SelectSeq(es, LAMBDA x : x # NULL)

\* The bus entry of the dispatched type while emit runs: iter is the Set
\* that forEach iterates (got at line 61); cur tells what the Map holds
\* for the type: that same Set ("iter"), nothing ("none"), or a Set
\* created since ("new", its members in fresh)
Dispatching(iter, cur, fresh) == [iter |-> iter, cur |-> cur, fresh |-> fresh]

\* off(type, h) called by a handler, lines 50-58
offIn(d, h) ==
  IF d.cur = "iter"
  THEN LET es == LiveDelete(d.iter, h)
       IN  IF Live(es) = << >> THEN Dispatching(es, "none", << >>)
           ELSE Dispatching(es, "iter", << >>)
  ELSE IF d.cur = "new"
  THEN LET f == SetDelete(d.fresh, h)
       IN  IF f = << >> THEN Dispatching(d.iter, "none", << >>)
           ELSE Dispatching(d.iter, "new", f)
  ELSE d

\* on(type, h) called by a handler, lines 43-48
onIn(d, h) ==
  IF d.cur = "iter" THEN Dispatching(LiveAdd(d.iter, h), "iter", << >>)
  ELSE IF d.cur = "new" THEN Dispatching(d.iter, "new", SetAdd(d.fresh, h))
  ELSE Dispatching(d.iter, "new", << h >>)

\* handler(data), line 65, for a handler h that behaves as b[h]
invoke(d, h, b) ==
  IF b[h] = "reRegister" THEN onIn(offIn(d, h), h)
  ELSE IF b[h] = "addOther" THEN onIn(d, OtherHandler(h))
  ELSE d

\* handlers.forEach, lines 63-69, from entry i on: Set.prototype.forEach
\* walks the entry list by index up to its current end, skipping empty
\* slots, so it visits entries appended while it runs. inv is the list of
\* the invocations made; the walk is followed for MaxVisits invocations
RECURSIVE forEach(_, _, _, _)
forEach(d, i, inv, b) ==
  IF i > Len(d.iter) THEN [d |-> d, invoked |-> inv, ended |-> TRUE]
  ELSE IF d.iter[i] = NULL THEN forEach(d, i + 1, inv, b)
  ELSE IF Len(inv) = MaxVisits THEN [d |-> d, invoked |-> inv, ended |-> FALSE]
  ELSE forEach(invoke(d, d.iter[i], b), i + 1, Append(inv, d.iter[i]), b)

\* the handlers the Map holds for the type after the dispatch
heldAfter(d) ==
  IF d.cur = "iter" THEN Live(d.iter)
  ELSE IF d.cur = "new" THEN d.fresh
  ELSE << >>

\* ------------------------------------------------------ lifecycle tracker
trackerKeepsFirst(ar, id) == IF ar = NULL /\ id # NoId THEN id ELSE ar

\* response.created, lines 410-417
trackerOnCreated(ar, id) == IF id # NoId THEN id ELSE ar

trackerKeeps(ar) == ar

\* response.done (457) and the reset events (401)
trackerOnEnded(ar) == NULL

shouldSendAlways(ar) == TRUE

shouldSendNever(ar) == FALSE

\* stopMic, line 232: if (activeResponseRef.current)
shouldSendCancel(ar) == ar # NULL

\* --------------------------------------------------- audio playback queue
\* The queue state handled by the playback functions:
\*   q: audioQueueRef.current, playing: isPlayingRef.current,
\*   rend: renders being awaited, log: render starts so far
AudioState(q, playing, rend, log) ==
  [q |-> q, playing |-> playing, rend |-> rend, log |-> log]

popLast(q) == [item |-> q[Len(q)], rest |-> SubSeq(q, 1, Len(q) - 1)]

\* audioQueueRef.current.shift(), line 83
shift(q) == [item |-> Head(q), rest |-> Tail(q)]

\* a queued fragment is the number of its enqueue; the fragment without
\* samples (an Int16Array of length 0) is written as the negative number.
\* createBuffer(1, 0, 24000), line 92, throws for it: the async
\* playAudioQueue ends there, rejected, before line 106 clears the flag
hasSamples(item) == item > 0

drainStops(a) == AudioState(a.q, FALSE, a.rend, a.log)

\* one iteration of the while loop of playAudioQueue, lines 82-104, or its
\* exit, line 106: take the head and start its render, which is then
\* awaited
drainStep(a) ==
  IF Len(a.q) > 0
  THEN LET s == shift(a.q)
       IN  IF hasSamples(s.item)
           THEN AudioState(s.rest, a.playing, a.rend \cup {s.item},
                           Append(a.log, s.item))
           ELSE AudioState(s.rest, a.playing, a.rend, a.log)
  ELSE AudioState(a.q, FALSE, a.rend, a.log)

\* playAudioQueue(), lines 74-107, up to its first await
playAudioQueue(a) ==
  IF a.playing \/ Len(a.q) = 0 THEN a
  ELSE drainStep(AudioState(a.q, TRUE, a.rend, a.log))

\* lines 120-128: atob() and new Int16Array() of a payload that decodes;
\* a payload of ASCII whitespace only, "zero", is a non-empty string that
\* atob() decodes to no bytes
decoded(payload, frag) == IF payload = "zero" THEN 0 - frag ELSE frag

\* playAudioDelta(base64Audio), lines 110-137; frag is the new fragment
playAudioDelta(a, payload, frag) ==
  IF payload = "bad" THEN a                     \* thrown and caught, 134
  ELSE LET item == decoded(payload, frag)
           pushed == AudioState(Append(a.q, item), a.playing, a.rend, a.log)
       IN  IF ~pushed.playing THEN playAudioQueue(pushed) ELSE pushed

keepQueue(a) == AudioState(a.q, FALSE, a.rend, a.log)

\* queue reset, lines 399-400
resetQueue(a) == AudioState(<< >>, FALSE, a.rend, a.log)

doneResetsQueue(a) == resetQueue(a)

\* response.done, lines 453-468: the branch clears the tracker and logs; it
\* does not touch audioQueueRef or isPlayingRef
queueOnDone(a) == a

\* ------------------------------------------------------ channel.onmessage
MsgTypes == ResetTypes \cup AudioTypes
              \cup {"response.created", "response.done", "error"}

\* what the message carries besides its type
MsgArgs(type) ==
  IF type = "response.created" THEN ResponseIds \cup {NoId}
  ELSE IF type \in AudioTypes THEN AudioPayloads
  ELSE IF type = "response.done" THEN {"ok", "noresp"}
  ELSE {"-"}

emitViewEarly(before, after) == before

\* emit is the last statement of the handler (line 493): subscribers see
\* the tracker and the queue as the bookkeeping of lines 396-468 left them
emitView(before, after) == after

forwardsType(type, arg) == type

\* emit(data.type, data), line 493: the handlers get the parsed object
\* itself
forwarded(type, arg) == arg

onmessageRethrows(thrown) == thrown

\* the try/catch around the whole onmessage body, lines 387 and 494-496:
\* whatever is thrown inside is logged and goes no further
onmessageCatch(thrown) == FALSE

\* response.done without a response object: resp.status throws (460), the
\* outer catch (494) logs, emit (493) is skipped
handlerThrows(type, arg) == type = "response.done" /\ arg = "noresp"

\* channel.onmessage, lines 386-497, for a message that parses as JSON
OnMessage(type, arg) ==
  /\ chReady = "open"
  /\ LET cur == AudioState(audioQueue, isPlaying, rendering, renderLog)
         isReset == type \in ResetTypes
         isAudio == type \in AudioTypes /\ arg # "empty"
         pushes == isAudio /\ arg # "bad"
         a1 == IF isReset THEN resetQueue(cur)
               ELSE IF type = "response.done" THEN queueOnDone(cur)
               ELSE cur
         a2 == IF isAudio THEN playAudioDelta(a1, arg, fragCount + 1) ELSE a1
     IN  /\ pushes => fragCount < MaxFrag
         /\ audioQueue' = a2.q
         /\ isPlaying' = a2.playing
         /\ rendering' = a2.rend
         /\ renderLog' = a2.log
         /\ fragCount' = IF pushes THEN fragCount + 1 ELSE fragCount
         /\ discarded' = IF isReset
                         THEN discarded \cup (Range(audioQueue) \ Range(a1.q))
                         ELSE discarded
         /\ resetMark' = IF isReset THEN fragCount ELSE resetMark
  /\ activeResponse' =
       IF type \in ResetTypes \/ type = "response.done"
       THEN trackerOnEnded(activeResponse)
       ELSE IF type = "response.created"
       THEN trackerOnCreated(activeResponse, arg)
       ELSE activeResponse
  /\ lastLifecycle' =
       IF type \in ResetTypes \/ type = "response.done" THEN "ended"
       ELSE IF type = "response.created" THEN "started"
       ELSE lastLifecycle
  /\ lastTracked' =
       IF type \in ResetTypes \/ type = "response.done" THEN "ended"
       ELSE IF type = "response.created" /\ arg # NoId THEN "started"
       ELSE lastTracked
  /\ lastEmit' = IF handlerThrows(type, arg) THEN "none" ELSE type
  /\ lastInvoked' = IF handlerThrows(type, arg) THEN << >>
                    ELSE emit(eventHandlers, type)
  /\ lastPayload' = IF handlerThrows(type, arg) THEN "none"
                    ELSE forwarded(type, arg)
  /\ emitRaised' = IF handlerThrows(type, arg) THEN FALSE
                   ELSE emitRaises(eventHandlers, type)
  /\ raises' = IF /\ ~handlerThrows(type, arg)
                  /\ \E h \in Range(emit(eventHandlers, type)) : h \in Throwing
                  /\ raises < RaiseCap
               THEN raises + 1 ELSE raises
  /\ emitSaw' =
       IF handlerThrows(type, arg) THEN emitSaw
       ELSE LET before == << activeResponse, audioQueue, isPlaying >>
                after == << activeResponse', audioQueue', isPlaying' >>
            IN  [changed |-> before # after,
                 updated |-> emitView(before, after) = after,
                 tracker |-> activeResponse]
  /\ lastOp' = type
  /\ UNCHANGED scopeVars
  /\ UNCHANGED << eventHandlers, registered, removed, busCall >>
  /\ UNCHANGED << transportVars, micVars, sendVars >>

\* channel.onmessage for a message whose text is not JSON: JSON.parse
\* throws at line 388, the catch of line 494 logs, nothing else runs
OnUndecodable ==
  /\ chReady = "open"
  /\ raised' = onmessageCatch(TRUE)
  /\ lastOp' = "undecodable"
  /\ UNCHANGED scopeVars
  /\ UNCHANGED << wire, diag, dropped, sendCalls >>
  /\ UNCHANGED << transportVars, micVars, audioVars, trackerVars, busVars >>

\* channel.onmessage for an error event (lines 404-407 log, line 493 emits)
\* whose handlers behave as b. A dispatch that is still running after
\* MaxVisits invocations leaves the state "emitRunning": the event loop is
\* inside emit and nothing else of the page runs
EmitReentrant(b) ==
  /\ chReady = "open"
  /\ lastOp # "emitRunning"
  /\ "error" \in DOMAIN eventHandlers
  /\ LET r == forEach(Dispatching(eventHandlers["error"], "iter", << >>),
                      1, << >>, b)
         held == heldAfter(r.d)
         rest == [t \in DOMAIN eventHandlers \ {"error"} |-> eventHandlers[t]]
         now == { << "error", h >> : h \in Range(held) }
         was == { p \in registered : p[1] = "error" }
     IN  /\ eventHandlers' =
              IF held = << >>
              THEN (IF DOMAIN rest = {} THEN << >> ELSE rest)
              ELSE ("error" :> held) @@ rest
         /\ registered' = (registered \ was) \cup now
         /\ removed' = (removed \cup (was \ now)) \ now
         /\ lastInvoked' = r.invoked
         /\ raises' = IF /\ \E h \in Range(r.invoked) : h \in Throwing
                         /\ raises < RaiseCap
                      THEN raises + 1 ELSE raises
         /\ lastOp' = IF r.ended THEN "error" ELSE "emitRunning"
  /\ lastEmit' = "error"
  /\ lastPayload' = forwarded("error", "-")
  /\ emitRaised' = FALSE
  /\ emitSaw' = [changed |-> FALSE, updated |-> TRUE,
                 tracker |-> activeResponse]
  /\ UNCHANGED busCall
  /\ UNCHANGED scopeVars
  /\ UNCHANGED << transportVars, micVars, audioVars, trackerVars, sendVars >>

\* source.onended of the render of fragment f: the drain loop that awaits
\* it resumes (line 100) and runs to its next await or to its end
RenderEnded(f) ==
  /\ f \in rendering
  /\ LET a == drainStep(AudioState(audioQueue, isPlaying, rendering \ {f},
                                   renderLog))
     IN  /\ audioQueue' = a.q
         /\ isPlaying' = a.playing
         /\ rendering' = a.rend
         /\ renderLog' = a.log
  /\ lastOp' = "renderEnded"
  /\ UNCHANGED scopeVars
  /\ UNCHANGED << fragCount, discarded, resetMark >>
  /\ UNCHANGED << transportVars, micVars, trackerVars, busVars, sendVars >>

\* ------------------------------------------------------------------ send
\* The state send() works on
SendState(w, d, dr, n) == [wire |-> w, diag |-> d, dropped |-> dr, calls |-> n]

channelSet(dc, ready) == dc

\* send, line 142: dataChannel?.readyState === 'open'
channelReady(dc, ready) == dc /\ ready = "open"

\* send(event), lines 140-153; RTCDataChannel.send() of a small JSON text
\* on an open channel does not throw
send(s, type) ==
  LET id == s.calls + 1
  IN  IF channelReady(dataChannel, chReady)
      THEN SendState(Append(s.wire, WireMsg(type, id)), s.diag, s.dropped, id)
      ELSE SendState(s.wire, s.diag + 1, s.dropped \cup {id}, id)

\* the bounds of the record kept of the wire and of the diagnostics
SendFits(s) == Len(s.wire) <= MaxWire /\ s.diag <= MaxDiag

\* events the UI layer hands to send()
UiEvents == {"conversation.item.create", "response.create"}

\* a UI-layer call of send(event)
Send(type) ==
  /\ ~scopeEnded
  /\ LET s == send(SendState(wire, diag, dropped, sendCalls), type)
     IN  /\ SendFits(s)
         /\ wire' = s.wire
         /\ diag' = s.diag
         /\ dropped' = s.dropped
         /\ sendCalls' = s.calls
  /\ raised' = FALSE
  /\ lastOp' = "send"
  /\ UNCHANGED scopeVars
  /\ UNCHANGED << transportVars, micVars, audioVars, trackerVars, busVars >>

\* ------------------------------------------------------------ mic control
startMicAlways(p) == TRUE

\* startMic, lines 157-160: if (!pc) it logs and returns; p is the pc
\* state the closure holds
startMicProceeds(p) == p

\* startMic(), lines 156-181, up to `await getUserMedia()`; the awaited
\* audio-element play() before it touches no state of the hook
StartMic ==
  /\ ~scopeEnded
  /\ micStarts < MaxMicStarts
  /\ IF ~startMicProceeds(pc)
     THEN UNCHANGED micVars                    \* console.error, return
     ELSE /\ micStarts' = micStarts + 1
          /\ micTasks' = Append(micTasks, "getUserMedia")
          /\ UNCHANGED << replaceQ, liveTracks, localStream, isMicActive >>
  /\ raised' = FALSE
  /\ lastOp' = "startMic"
  /\ UNCHANGED scopeVars
  /\ UNCHANGED << wire, diag, dropped, sendCalls >>
  /\ UNCHANGED << transportVars, audioVars, trackerVars, busVars >>

ReplaceOp(track, task) == [track |-> track, task |-> task]

startMicCatchLogs(thrown) == FALSE

\* the catch of startMic, lines 201-204: logs and rethrows, so the call
\* rejects to its caller exactly when something was thrown in the try
startMicCatch(thrown) == thrown

\* startMic task k resumes with the capture stream (track k), lines
\* 183-191: finds the audio sender and awaits replaceTrack(track); on a
\* closed connection replaceTrack rejects and the catch rethrows (201-204)
GetUserMediaResolves(k) ==
  /\ k \in DOMAIN micTasks
  /\ micTasks[k] = "getUserMedia"
  /\ liveTracks' = liveTracks \cup {k}
  /\ IF \E i \in DOMAIN senders : TRUE
     THEN IF pcClosed
          THEN /\ micTasks' = [micTasks EXCEPT ![k] = "rejected"]
               /\ raised' = startMicCatch(TRUE)
               /\ UNCHANGED replaceQ
          ELSE /\ Len(replaceQ) < MaxReplaceQ
               /\ micTasks' = [micTasks EXCEPT ![k] = "replaceTrack"]
               /\ replaceQ' = Append(replaceQ, ReplaceOp(k, k))
               /\ raised' = FALSE
     ELSE /\ micTasks' = [micTasks EXCEPT ![k] = "noSender"]  \* 193-194
          /\ raised' = FALSE
          /\ UNCHANGED replaceQ
  /\ lastOp' = "getUserMediaResolved"
  /\ UNCHANGED scopeVars
  /\ UNCHANGED << micStarts, localStream, isMicActive >>
  /\ UNCHANGED << wire, diag, dropped, sendCalls >>
  /\ UNCHANGED << transportVars, audioVars, trackerVars, busVars >>

\* getUserMedia() rejects (capture denied): the catch rethrows, 201-204
GetUserMediaRejects(k) ==
  /\ k \in DOMAIN micTasks
  /\ micTasks[k] = "getUserMedia"
  /\ micTasks' = [micTasks EXCEPT ![k] = "rejected"]
  /\ raised' = startMicCatch(TRUE)
  /\ lastOp' = "getUserMediaRejected"
  /\ UNCHANGED scopeVars
  /\ UNCHANGED << micStarts, replaceQ, liveTracks, localStream, isMicActive >>
  /\ UNCHANGED << wire, diag, dropped, sendCalls >>
  /\ UNCHANGED << transportVars, audioVars, trackerVars, busVars >>

addTrack(snd, track) == Append(snd, track)

\* RTCRtpSender.replaceTrack on the audio sender (lines 191, 223): the
\* sender found by either find() is the one of the setup transceiver
replaceTrack(snd, track) == [snd EXCEPT ![1] = track]

\* the oldest pending replaceTrack() settles: the sender's track changes;
\* a startMic task awaiting it resumes, lines 197-200
ReplaceTrackSettles ==
  /\ Len(replaceQ) > 0
  /\ ~pcClosed                \* not on a closed connection
  /\ LET op == Head(replaceQ)
     IN  /\ senders' = replaceTrack(senders, op.track)
         /\ IF op.task # 0
            THEN /\ localStream' = op.track
                 /\ isMicActive' = TRUE
                 /\ micTasks' = [micTasks EXCEPT ![op.task] = "done"]
            ELSE UNCHANGED << localStream, isMicActive, micTasks >>
  /\ replaceQ' = Tail(replaceQ)
  /\ lastOp' = "replaceTrackSettled"
  /\ UNCHANGED scopeVars
  /\ UNCHANGED << micStarts, liveTracks >>
  /\ UNCHANGED << setup, pc, dataChannel, chReady, pcClosed, isConnected,
                  signalingCalls, setupLog >>
  /\ UNCHANGED << audioVars, trackerVars, busVars, sendVars >>

keepTracks(live, stream) == live

\* lines 210-216: track.stop() on every track of localStreamRef.current
\* (stream 0 is no stream)
stopTracks(live, stream) == live \ {stream}

\* stopMic(), lines 207-240
StopMic ==
  /\ ~scopeEnded
  /\ LET detach == pc /\ \E i \in DOMAIN senders : senders[i] # 0
         cur == SendState(wire, diag, dropped, sendCalls)
         s == IF shouldSendCancel(activeResponse)
              THEN send(cur, "response.cancel") ELSE cur
     IN  /\ detach => Len(replaceQ) < MaxReplaceQ
         /\ SendFits(s)
         /\ liveTracks' = stopTracks(liveTracks, localStream)
         /\ localStream' = 0
         /\ replaceQ' = IF detach THEN Append(replaceQ, ReplaceOp(0, 0))
                        ELSE replaceQ
         /\ isMicActive' = FALSE
         /\ wire' = s.wire
         /\ diag' = s.diag
         /\ dropped' = s.dropped
         /\ sendCalls' = s.calls
  /\ raised' = FALSE
  /\ lastOp' = "stopMic"
  /\ UNCHANGED scopeVars
  /\ UNCHANGED << micStarts, micTasks >>
  /\ UNCHANGED << transportVars, audioVars, trackerVars, busVars >>

\* ----------------------------------------------------------------- cleanup
closeWhenSet(p, closed) == p

\* lines 269-271: pc?.connectionState !== 'closed', then pc?.close();
\* p is the pc the closure holds, closed whether close() has run on it
shouldClosePc(p, closed) == p /\ ~closed

neverCloseChannel(dc, ready) == FALSE

\* lines 264-266: dataChannel?.readyState === 'open', then close()
shouldCloseChannel(dc, ready) == dc /\ ready = "open"

\* cleanup(), lines 256-287, run by a closure that holds p as pc and dc as
\* dataChannel; closing the connection closes its channel
Cleanup(p, dc, op) ==
  /\ liveTracks' = liveTracks \ {localStream}
  /\ localStream' = 0
  /\ LET closeCh == shouldCloseChannel(dc, chReady)
         closePc == shouldClosePc(p, pcClosed)
     IN  /\ closeCalls' =
              [channel |-> closeCalls.channel + (IF closeCh THEN 1 ELSE 0),
               connection |->
                 closeCalls.connection + (IF closePc THEN 1 ELSE 0)]
         /\ pcClosed' = (pcClosed \/ closePc)
         /\ chReady' =
              IF closeCh
                 \/ (closePc /\ chReady \in {"connecting", "open", "closing"})
              THEN "closed" ELSE chReady
  /\ eventHandlers' = << >>
  /\ registered' = {}
  /\ audioElement' = FALSE
  /\ isConnected' = FALSE
  /\ isMicActive' = FALSE
  /\ connectionState' = "closed"
  /\ raised' = FALSE
  /\ lastOp' = op
  /\ UNCHANGED << setup, pc, dataChannel, senders, signalingCalls, setupLog >>
  /\ UNCHANGED << micStarts, micTasks, replaceQ, capturing, pcState >>
  /\ UNCHANGED << removed, lastEmit, lastInvoked, lastPayload, emitRaised,
                  raises, emitSaw,
                  busCall >>
  /\ UNCHANGED << wire, diag, dropped, sendCalls >>
  /\ UNCHANGED << audioVars, trackerVars >>

\* cleanup() called through the facade: the closure of the latest render
FacadeCleanup ==
  /\ ~scopeEnded
  /\ Cleanup(pc, dataChannel,
             IF lastOp \in {"cleanup", "cleanupAgain"} THEN "cleanupAgain"
             ELSE "cleanup")
  /\ UNCHANGED scopeEnded

\* what the cleanup closure of the first render holds: the effect has an
\* empty dependency list (line 537), so React keeps the function returned
\* by its only run, created while pc and dataChannel were still null
effectCleanupSees == [pc |-> FALSE, dataChannel |-> FALSE]

\* the component unmounts: React runs the function the effect returned
Unmount ==
  /\ setup # "unmounted"
  /\ ~scopeEnded
  /\ Cleanup(effectCleanupSees.pc, effectCleanupSees.dataChannel, "unmount")
  /\ scopeEnded' = TRUE

\* ------------------------------------------------- screenshot capture (UI)
\* ontrack, lines 310-335: the audio element is created on the first remote
\* track and gets the remote stream; tracks arrive once the answer is being
\* applied
OnTrack ==
  /\ setup \in {"setRemote", "done"}
  /\ ~pcClosed
  /\ audioElement' = TRUE
  /\ lastOp' = "ontrack"
  /\ UNCHANGED << connectionState, pcState, closeCalls, scopeEnded,
                  capturing >>
  /\ UNCHANGED << transportVars, micVars, audioVars, trackerVars, busVars,
                  sendVars >>

\* the members of the object useRealtime() returns, lines 539-550
Facade == {"isConnected", "connectionState", "send", "on", "off", "startMic",
           "stopMic", "enableAudio", "isMicActive", "cleanup"}

\* a member the component destructures from useRealtime() can be called
\* only if the hook returns it; calling undefined is a TypeError
callable(member) == member \in Facade

\* captureAndSend, part_002 line 129 on: cancelResponse() inside the try;
\* the TypeError goes to the catch of line 174 and the call ends, otherwise
\* the call goes on to the screenshot
afterEnableAudio(c) ==
  IF callable("cancelResponse")
  THEN [c EXCEPT !.shot = @ + 1]
  ELSE c

\* captureAndSend(), part_002 lines 112-128: not connected: a notification
\* and nothing else; otherwise `await enableAudio()`, which awaits
\* audioElement.play() when the element exists (lines 243-253) and else
\* resumes in the same task
CaptureAndSend ==
  /\ ~scopeEnded
  /\ IF ~isConnected
     THEN /\ capturing' = capturing
          /\ lastOp' = "captureRefused"
     ELSE IF audioElement
     THEN /\ capturing.play < MaxCaptures
          /\ capturing' = [capturing EXCEPT !.play = @ + 1]
          /\ lastOp' = "captureStarted"
     ELSE /\ capturing.shot < MaxCaptures
          /\ capturing' = afterEnableAudio(capturing)
          /\ lastOp' = IF callable("cancelResponse") THEN "captureStarted"
                       ELSE "captureAndSend"
  /\ UNCHANGED << connectionState, pcState, audioElement, closeCalls,
                  scopeEnded >>
  /\ UNCHANGED << transportVars, micVars, audioVars, trackerVars, busVars,
                  sendVars >>

\* continuation of captureAndSend() after audioElement.play() settled
\* (a rejection is caught at line 125): line 129 on
PlaySettles ==
  /\ capturing.play > 0
  /\ capturing.shot < MaxCaptures
  /\ capturing' = afterEnableAudio([capturing EXCEPT !.play = @ - 1])
  /\ lastOp' = IF callable("cancelResponse") THEN "captureResumed"
               ELSE "captureAndSend"
  /\ UNCHANGED << connectionState, pcState, audioElement, closeCalls,
                  scopeEnded >>
  /\ UNCHANGED << transportVars, micVars, audioVars, trackerVars, busVars,
                  sendVars >>

\* handleScreenShare(), part_001 lines 58-68: not connected: a notification
\* and nothing else; otherwise `await captureScreenshot()`
HandleScreenShare ==
  /\ ~scopeEnded
  /\ IF ~isConnected
     THEN /\ capturing' = capturing
          /\ lastOp' = "captureRefused"
     ELSE /\ capturing.shot < MaxCaptures
          /\ capturing' = [capturing EXCEPT !.shot = @ + 1]
          /\ lastOp' = "shareStarted"
  /\ UNCHANGED << connectionState, pcState, audioElement, closeCalls,
                  scopeEnded >>
  /\ UNCHANGED << transportVars, micVars, audioVars, trackerVars, busVars,
                  sendVars >>

\* the screenshot promise settles: resolved, the call goes on to
\* `await optimizeImage()`; rejected (the user dismissed the picker), the
\* catch shows the error and the call ends
ScreenshotSettles(ok) ==
  /\ capturing.shot > 0
  /\ ok => capturing.image < MaxCaptures
  /\ capturing' = IF ok
                  THEN [capturing EXCEPT !.shot = @ - 1, !.image = @ + 1]
                  ELSE [capturing EXCEPT !.shot = @ - 1]
  /\ lastOp' = IF ok THEN "screenshotTaken" ELSE "captureFailed"
  /\ UNCHANGED << connectionState, pcState, audioElement, closeCalls,
                  scopeEnded >>
  /\ UNCHANGED << transportVars, micVars, audioVars, trackerVars, busVars,
                  sendVars >>

sendItemOnly(s) == send(s, "conversation.item.create")

\* the two send() calls that end a capture: conversation.item.create with
\* the instruction text and the image, then response.create, with no await
\* between the two (part_001 lines 73-99, part_002 lines 147-172)
sendImage(s) == send(send(s, "conversation.item.create"), "response.create")

\* the bounds of the record kept of the wire when a capture sends
ShareFits(s) == Len(s.wire) <= MaxShareWire /\ s.diag <= MaxDiag

\* continuation after optimizeImage(): the two sends
ImageOptimized ==
  /\ capturing.image > 0
  /\ capturing' = [capturing EXCEPT !.image = @ - 1]
  /\ LET s == sendImage(SendState(wire, diag, dropped, sendCalls))
     IN  /\ ShareFits(s)
         /\ wire' = s.wire
         /\ diag' = s.diag
         /\ dropped' = s.dropped
         /\ sendCalls' = s.calls
  /\ raised' = FALSE
  /\ lastOp' = "captureAndSend"
  /\ UNCHANGED << connectionState, pcState, audioElement, closeCalls,
                  scopeEnded >>
  /\ UNCHANGED << transportVars, micVars, audioVars, trackerVars, busVars >>

\* --------------------------------------------- audio playback queue runs
AudioMessage ==
  \E type \in AudioTypes \cup ResetTypes :
    \E arg \in MsgArgs(type) : OnMessage(type, arg)

AudioRenderEnded == \E f \in 1..MaxFrag : RenderEnded(f)

NextAudio == SetupSteps \/ AudioMessage \/ AudioRenderEnded

SpecAudio == Init /\ [][NextAudio]_vars

\* ----------------------------------------------- lifecycle tracker runs
SetupFails == SignalingAnswered(FALSE) \/ SetupStepRejects

LifecycleMessage ==
  \E type \in ResetTypes \cup {"response.created", "response.done"} :
    \E arg \in MsgArgs(type) : OnMessage(type, arg)

AudioDelta == OnMessage("response.audio.delta", "ok")

UiSend == \E type \in UiEvents : Send(type)

NextTracker ==
  \/ SetupSteps
  \/ ChannelClose
  \/ LifecycleMessage
  \/ AudioDelta
  \/ AudioRenderEnded
  \/ UiSend
  \/ StopMic

SpecTracker == Init /\ [][NextTracker]_vars

\* --------------------------------- runs of a response cut short by stopMic
ResponseCreated == \E id \in ResponseIds : OnMessage("response.created", id)

ResponseCancelled == OnMessage("response.cancelled", "-")

MicGranted == \E k \in 1..MaxMicStarts : GetUserMediaResolves(k)

NextStop ==
  \/ SetupSteps
  \/ StartMic
  \/ MicGranted
  \/ ReplaceTrackSettles
  \/ StopMic
  \/ ResponseCreated
  \/ ResponseCancelled
  \/ AudioDelta
  \/ AudioRenderEnded

SpecStop == Init /\ [][NextStop]_vars

\* ------------------------------------------------------------ mic toggling
MicDenied == \E k \in 1..MaxMicStarts : GetUserMediaRejects(k)

ResponseDone == OnMessage("response.done", "ok")

NextMic ==
  \/ SetupSteps
  \/ SetupFails
  \/ StartMic
  \/ MicGranted
  \/ MicDenied
  \/ ReplaceTrackSettles
  \/ StopMic
  \/ ResponseCreated
  \/ ResponseDone

SpecMic == Init /\ [][NextMic]_vars

\* ---------------------------------------------------------- outbound sends
NextSend ==
  \/ SetupSteps
  \/ SetupFails
  \/ ChannelClose
  \/ UiSend
  \/ StopMic
  \/ ResponseCreated

SpecSend == Init /\ [][NextSend]_vars

\* ---------------------------------------------------------- event bus runs
BusTypes == {"error", "response.done"}

Subscribe == \E t \in BusTypes : \E h \in Handlers : On(t, h)

Unsubscribe == \E t \in BusTypes : \E h \in Handlers : Off(t, h)

BusMessage == OnMessage("error", "-") \/ OnMessage("response.done", "ok")

NextBus == SetupSteps \/ Subscribe \/ Unsubscribe \/ BusMessage

SpecBus == Init /\ [][NextBus]_vars

\* captures of the screen on a session that can lose its channel
Capture ==
  \/ CaptureAndSend
  \/ PlaySettles
  \/ HandleScreenShare
  \/ \E ok \in BOOLEAN : ScreenshotSettles(ok)
  \/ ImageOptimized

NextCapture ==
  \/ SetupSteps
  \/ OnTrack
  \/ ChannelClose
  \/ Capture
  \/ UiSend
  \/ StopMic
  \/ ResponseCreated

SpecCapture == Init /\ [][NextCapture]_vars

\* one turn without resets: a screenshot is sent, response.created (r1)
\* arrives, then the audio fragments, then response.done, while renders end
\* at any time and the remote track may arrive
ScreenShare ==
  \/ HandleScreenShare
  \/ ScreenshotSettles(TRUE)
  \/ ImageOptimized

TurnCreated ==
  lastLifecycle = "none" /\ OnMessage("response.created", "r1")

TurnDelta == lastLifecycle = "started" /\ AudioDelta

TurnDone ==
  lastLifecycle = "started" /\ fragCount = MaxFrag /\ ResponseDone

NextTurn ==
  \/ SetupSteps
  \/ OnTrack
  \/ ScreenShare
  \/ TurnCreated
  \/ TurnDelta
  \/ TurnDone
  \/ AudioRenderEnded

SpecTurn == Init /\ [][NextTurn]_vars

\* inbound messages of every intercepted kind, forwarded to the
\* subscribers of response.done
SubscribeDone == \E h \in Handlers : On("response.done", h)

ForwardedMessage ==
  \/ ResponseCreated
  \/ AudioDelta
  \/ ResponseCancelled
  \/ ResponseDone

NextForward ==
  SetupSteps \/ SubscribeDone \/ ForwardedMessage \/ AudioRenderEnded

SpecForward == Init /\ [][NextForward]_vars

\* teardown by the owner or by the unmount, with the mic in use
NextCleanup ==
  \/ SetupSteps
  \/ OnTrack
  \/ StartMic
  \/ MicGranted
  \/ ReplaceTrackSettles
  \/ Subscribe
  \/ FacadeCleanup
  \/ Unmount

SpecCleanup == Init /\ [][NextCleanup]_vars

\* the handshake, succeeding or failing, with the facade in use meanwhile
TransportProgress ==
  \E to \in {"connecting", "connected", "disconnected", "failed"} :
    ConnectionStateChange(to)

NextSetup ==
  \/ SetupSteps
  \/ SetupFails
  \/ TransportProgress
  \/ ChannelClose
  \/ OnTrack
  \/ UiSend
  \/ StartMic
  \/ StopMic

SpecSetup == Init /\ [][NextSetup]_vars

\* inbound traffic of a response in progress, with error events and
\* undecodable messages among it
ErrorEvent == OnMessage("error", "-")

NextInbound ==
  \/ SetupSteps
  \/ Subscribe
  \/ ResponseCreated
  \/ AudioDelta
  \/ AudioRenderEnded
  \/ ErrorEvent
  \/ OnUndecodable

SpecInbound == Init /\ [][NextInbound]_vars

\* audio-fragment events of both types with every kind of payload
FragmentPayloads == AudioPayloads \cup {"zero"}

FragmentMessage ==
  \E type \in AudioTypes : \E arg \in FragmentPayloads : OnMessage(type, arg)

NextFragments == SetupSteps \/ FragmentMessage \/ AudioRenderEnded

SpecFragments == Init /\ [][NextFragments]_vars

\* overlapping captures and stopMic() calls on a session that can lose its
\* channel
NextShare ==
  \/ SetupSteps
  \/ OnTrack
  \/ ChannelClose
  \/ Capture
  \/ StopMic
  \/ ResponseCreated

SpecShare == Init /\ [][NextShare]_vars

\* the component unmounts while initConnection is suspended at
\* `await fetch(...)`, line 507; the handshake then goes on or fails
UnmountDuringFetch == setup = "fetch" /\ Unmount

NextEarlyUnmount ==
  \/ SetupSteps
  \/ SetupFails
  \/ UiSend
  \/ UnmountDuringFetch
  \/ OnTrack
  \/ TransportProgress
  \/ ChannelClose

SpecEarlyUnmount == Init /\ [][NextEarlyUnmount]_vars

\* the channel closes step by step while the UI goes on sending
NextChannel ==
  \/ SetupSteps
  \/ ChannelClosing
  \/ ChannelClose
  \/ UiSend
  \/ FacadeCleanup

SpecChannel == Init /\ [][NextChannel]_vars

\* error events dispatched to handlers that use the bus themselves
SubscribeError ==
  lastOp # "emitRunning" /\ \E h \in Handlers : On("error", h)

ErrorToReentrant == \E b \in [Handlers -> Behaviours] : EmitReentrant(b)

NextReentrant == SetupSteps \/ SubscribeError \/ ErrorToReentrant

SpecReentrant == Init /\ [][NextReentrant]_vars

\* teardown while fragments are queued and a render is in progress
NextTeardown ==
  \/ SetupSteps
  \/ OnTrack
  \/ AudioDelta
  \/ AudioRenderEnded
  \/ FacadeCleanup

SpecTeardown == Init /\ [][NextTeardown]_vars

\* ------------------------------------------------ claims on the audio queue
\* C1: at most one drain loop of the playback queue runs at any time, so at
\* most one fragment is being rendered at any time.
C1_SingleDrainLoop == Cardinality(rendering) <= 1

\* C2: the fragments that are rendered start rendering in the order in
\* which they were enqueued (fragment n is the n-th one enqueued).
C2_RenderOrderIsFifo ==
  \A i, j \in DOMAIN renderLog : i < j => renderLog[i] < renderLog[j]

\* three fragments started in a run where a reset left a second drain loop
\* running next to the first one
C2_Witness == Len(renderLog) = 3 /\ Cardinality(rendering) = 2

\* C3: right after a reset the queue is empty; a fragment that the reset
\* removed from the queue is never rendered; a fragment enqueued after the
\* latest reset is not discarded: it is still queued or its render started.
C3_ResetDiscardsQueued ==
  /\ lastOp \in ResetTypes => audioQueue = << >>
  /\ discarded \cap Range(renderLog) = {}
  /\ \A f \in 1..fragCount :
       f > resetMark => /\ f \notin discarded
                        /\ f \in Range(audioQueue) \cup Range(renderLog)

\* a reset discarded queued fragments, and a fragment enqueued after it
\* was rendered
C3_Witness ==
  /\ discarded # {}
  /\ \E f \in Range(renderLog) : f > resetMark

\* C4: after a reset has been processed, no fragment enqueued before that
\* reset is still being rendered.
C4_ResetAbortsRender == \A f \in rendering : f > resetMark

\* ---------------------------------------- claims on the lifecycle tracker
CancelsOnWire == { i \in DOMAIN wire : wire[i].type = "response.cancel" }

\* C5 (as stated): the tracker holds a response id if and only if the
\* latest lifecycle event was a response.created with no response-ended
\* event (response.done, response.cancelled, output_audio_buffer.cleared)
\* after it.
C5_TrackerFollowsLastEvent ==
  (activeResponse # NULL) <=> (lastLifecycle = "started")

\* C5 (amended): the tracker holds a response id if and only if, among the
\* response.created events that carry a response id and the response-ended
\* events, the latest one is a response.created.
C5_TrackerFollowsLastIdentified ==
  (activeResponse # NULL) <=> (lastTracked = "started")

\* a second response started after a reset that ended an earlier one
C5_Witness ==
  /\ lastOp = "response.created"
  /\ activeResponse = "r2"
  /\ discarded # {}

\* C6: a step puts a response.cancel on the wire only when the tracker
\* holds a response id before it; stopMic() with an idle tracker leaves the
\* wire as it is.
C6_CancelOnlyInFlight ==
  [][ /\ (/\ Len(wire') > Len(wire)
          /\ wire'[Len(wire')].type = "response.cancel")
        => activeResponse # NULL
      /\ (lastOp' = "stopMic" /\ activeResponse = NULL) => wire' = wire
    ]_vars

\* stopMic() ran with an idle tracker on an open channel, after a cancel
\* had gone out for a response that has since ended: still one cancel
C6_Witness ==
  /\ lastOp = "stopMic"
  /\ activeResponse = NULL
  /\ dataChannel /\ chReady = "open"
  /\ Cardinality(CancelsOnWire) = 1

C8_TrackSubstitutionOnly ==
  /\ signalingCalls <= 1
  /\ setup = "done" =>
       /\ signalingCalls = 1
       /\ Len(senders) = 1
       /\ senders[1] \in 0..micStarts

\* startMic, stopMic, startMic: the second capture track is on the sender
\* and the first one has been stopped
C8_Witness ==
  /\ micStarts = 2
  /\ isMicActive
  /\ senders = << 2 >>
  /\ liveTracks = {2}

\* ---------------------------------------------------- claims on send()
\* C9: a send(event) call made while the channel is not open leaves the
\* wire unchanged, records one diagnostic and raises nothing; no dropped
\* event ever appears on the wire.
C9_SendDropsWhenNotOpen ==
  [][ /\ (lastOp' = "send" /\ ~(dataChannel /\ chReady = "open"))
        => (wire' = wire /\ diag' = diag + 1 /\ ~raised')
      /\ \A i \in DOMAIN wire' : wire'[i].id \notin dropped'
    ]_vars

\* the first send() was dropped before the channel opened; a later one went
\* out on the open channel
C9_Witness ==
  /\ 1 \in dropped
  /\ diag >= 1
  /\ \E i \in DOMAIN wire : wire[i].id > 1 /\ wire[i].type \in UiEvents

C11_HandlerExceptionIsolated ==
  (/\ lastOp \in MsgTypes /\ lastEmit # "none"
   /\ \E h \in Throwing : << lastEmit, h >> \in registered)
    => /\ \A h \in Handlers :
            << lastEmit, h >> \in registered => h \in Range(lastInvoked)
       /\ ~emitRaised

\* h1 raised in an earlier emit and again in the latest one, an "error"
\* emit that invoked h1 first and still went on to h2
C11_Witness ==
  /\ lastOp = "error"
  /\ raises = 2
  /\ lastInvoked = << "h1", "h2" >>
  /\ ~emitRaised

NoDuplicates(seq) == Len(seq) = Cardinality(Range(seq))

\* C12: on(type, h) for an h already registered for type leaves the
\* registry unchanged, and no handler is ever registered twice for a type;
\* off(type, h) removes h from the type whatever number of on calls came
\* before; off for an h that is not registered for type (the type may have
\* no entry at all) leaves the registry unchanged; neither call raises.
C12_RegistryIsASet ==
  [][ lastOp' \in {"on", "off"} =>
        /\ (busCall'.op = "on" /\ busCall'.was)
             => eventHandlers' = eventHandlers
        /\ (busCall'.op = "off" /\ ~busCall'.was)
             => eventHandlers' = eventHandlers
        /\ busCall'.op = "off"
             => busCall'.handler \notin Range(emit(eventHandlers', busCall'.type))
        /\ \A t \in DOMAIN eventHandlers' : NoDuplicates(eventHandlers'[t])
        /\ ~raised'
    ]_vars

\* the latest call was on("error", h1) with h1 already registered: the
\* registry still holds h1 once
C12_Witness ==
  /\ lastOp = "on"
  /\ busCall = BusCall("on", "error", "h1", TRUE)
  /\ eventHandlers["error"] = << "h1" >>

\* ------------------------------------------------- claims on the capture
\* C13: a capture-and-send that ends while the channel is open, its
\* screenshot taken or not needed, has put exactly two messages on the
\* wire: conversation.item.create, then response.create.
C13_CaptureSendsTwo ==
  [][ (lastOp' = "captureAndSend" /\ dataChannel /\ chReady = "open")
        => wire' = wire \o << WireMsg("conversation.item.create", sendCalls + 1),
                              WireMsg("response.create", sendCalls + 2) >>
    ]_vars

\* ------------------------------------------------ claims on a whole turn
\* C14: in a turn of response.created (r1), the audio fragments and
\* response.done, with no reset: whenever no render is in progress every
\* fragment received so far has been rendered, in order, the queue is
\* empty and the active flag is clear; from response.done on the tracker
\* is idle.
C14_TurnEndsIdle ==
  /\ rendering = {} =>
       /\ renderLog = [i \in 1..fragCount |-> i]
       /\ audioQueue = << >>
       /\ ~isPlaying
  /\ lastLifecycle = "ended" => activeResponse = NULL

\* response.done has arrived after all the fragments and the last render
\* has just ended: all rendered, queue empty, tracker idle
C14_Witness ==
  /\ lastOp = "renderEnded"
  /\ lastLifecycle = "ended"
  /\ fragCount >= 3
  /\ renderLog = [i \in 1..fragCount |-> i]
  /\ rendering = {}
  /\ audioQueue = << >>
  /\ activeResponse = NULL

\* C15 (as stated): each of response.done, response.cancelled and
\* output_audio_buffer.cleared leaves the tracker idle, the playback queue
\* empty and the active flag clear.
C15_EndedEventsResetQueue ==
  lastOp \in ResetTypes \cup {"response.done"} =>
    (activeResponse = NULL /\ audioQueue = << >> /\ ~isPlaying)

\* C15 (amended): response.cancelled and output_audio_buffer.cleared leave
\* the tracker idle, the playback queue empty and the active flag clear;
\* response.done leaves the tracker idle and leaves the playback queue and
\* the active flag as they were.
C15_ResetsClearDoneKeepsQueue ==
  [][ /\ lastOp' \in ResetTypes =>
           (activeResponse' = NULL /\ audioQueue' = << >> /\ ~isPlaying')
      /\ lastOp' = "response.done" =>
           /\ activeResponse' = NULL
           /\ audioQueue' = audioQueue
           /\ isPlaying' = isPlaying
    ]_vars

\* after an earlier reset, response.done arrived for a response whose
\* audio is still queued and playing: tracker idle, queue kept
C15_Witness ==
  /\ lastOp = "response.done"
  /\ resetMark > 0
  /\ activeResponse = NULL
  /\ audioQueue # << >>
  /\ isPlaying

\* ------------------------------------------- claims on the configuration
ConfigsOnWire == { i \in DOMAIN wire : wire[i].type = "session.update" }

\* C16: the step that opens the channel finds the wire empty and puts the
\* one session.update on it; no other step puts a session.update on the
\* wire; so the wire never holds two of them and its first message, if
\* any, is the session.update, whatever send(), stopMic() and capture
\* calls came before the channel opened.
C16_ConfigOnceAndFirst ==
  [][ /\ lastOp' = "channelOpen" =>
           (wire = << >> /\ wire' = << WireMsg("session.update", 0) >>)
      /\ lastOp' # "channelOpen" => ConfigsOnWire' = ConfigsOnWire
      /\ Cardinality(ConfigsOnWire') <= 1
      /\ wire' # << >> => wire'[1].type = "session.update"
    ]_vars

\* a send() was dropped before the channel opened; the wire starts with
\* the session.update, followed by the two messages of a capture
C16_Witness ==
  /\ lastOp = "captureAndSend"
  /\ 1 \in dropped
  /\ wire = << WireMsg("session.update", 0),
               WireMsg("conversation.item.create", 2),
               WireMsg("response.create", 3) >>

\* ---------------------------------------------- claims on the forwarding
\* C17: every inbound message that decodes as JSON is emitted on the bus
\* under its type, the intercepted ones included.
C17_EveryMessageForwarded == lastOp \in MsgTypes => lastEmit = lastOp

\* C18: the step that handles an inbound message emits that message and no
\* other, and no other step emits, so emits follow the order of arrival;
\* the subscribers of an emit see the tracker and the queue as the
\* bookkeeping for that message left them.
C18_EmitInOrderAfterBookkeeping ==
  [][ /\ lastOp' \in MsgTypes =>
           /\ lastEmit' \in {lastOp', "none"}
           /\ lastEmit' # "none" => emitSaw'.updated
      /\ lastOp' \notin MsgTypes => UNCHANGED << lastEmit, lastInvoked >>
    ]_vars

\* response.done cleared a tracker that held an id, and both subscribers
\* were then invoked with the tracker already idle
C18_Witness ==
  /\ lastOp = "response.done"
  /\ lastEmit = "response.done"
  /\ emitSaw.changed /\ emitSaw.updated
  /\ activeResponse = NULL
  /\ Range(lastInvoked) = Handlers

\* ------------------------------------------------- claims on the teardown
\* what a caller of cleanup() can observe of the session
Observable ==
  << pcClosed, chReady, closeCalls, liveTracks, localStream, senders,
     eventHandlers, audioElement, isConnected, isMicActive, connectionState,
     wire, audioQueue, isPlaying, activeResponse >>

\* C19: a cleanup() call that follows a cleanup() call raises nothing and
\* changes nothing observable: no further close() of the channel or of the
\* connection, no further track stop, the same facade state.
C19_CleanupIdempotent ==
  [][ lastOp' = "cleanupAgain" => (UNCHANGED Observable /\ ~raised') ]_vars

\* the first cleanup() closed the connection once and stopped the capture
\* track of a live mic; the second one has just run
C19_Witness ==
  /\ lastOp = "cleanupAgain"
  /\ closeCalls = [channel |-> 1, connection |-> 1]
  /\ micStarts >= 1 /\ liveTracks = {}
  /\ pcClosed

\* C20: right after the unmount of a component whose setup had completed,
\* the connection is closed, the channel is not open, no capture track is
\* live and the registry is empty.
C20_UnmountTearsDown ==
  (lastOp = "unmount" /\ setup = "done") =>
     /\ pcClosed
     /\ chReady # "open"
     /\ liveTracks = {}
     /\ eventHandlers = << >>

\* C21: a cleanup() call through the facade, made once setup has completed,
\* stops the tracks of the capture stream the session holds and drops the
\* stream, calls close() on the channel exactly when it is open and on the
\* connection exactly when it is not closed, and leaves the channel not
\* open, the connection closed, the registry empty, the playback sink
\* detached, connection state closed, connected false and mic-active false.
C21_CleanupTearsDown ==
  [][ (lastOp' \in {"cleanup", "cleanupAgain"} /\ setup = "done") =>
        /\ localStream \notin liveTracks'
        /\ localStream' = 0
        /\ closeCalls'.channel =
             closeCalls.channel + (IF chReady = "open" THEN 1 ELSE 0)
        /\ closeCalls'.connection =
             closeCalls.connection + (IF pcClosed THEN 0 ELSE 1)
        /\ chReady' # "open"
        /\ pcClosed'
        /\ eventHandlers' = << >>
        /\ ~audioElement'
        /\ connectionState' = "closed"
        /\ ~isConnected'
        /\ ~isMicActive'
    ]_vars

\* cleanup() has just run on a session with an open channel, a live mic on
\* the sender, a remote track and handlers registered by an earlier on()
C21_Witness ==
  /\ lastOp = "cleanup"
  /\ setup = "done"
  /\ closeCalls = [channel |-> 1, connection |-> 1]
  /\ senders = << 1 >>
  /\ liveTracks = {}
  /\ busCall.op = "on"
  /\ eventHandlers = << >>
  /\ connectionState = "closed"

\* --------------------------------------------- claims on the mic (second)
\* C22: when getUserMedia() is denied, the startMic() call rejects to its
\* caller, mic-active keeps its value (false stays false), and the sender's
\* track, the capture stream and its tracks, the channel, the tracker, the
\* playback queue and the wire are as before.
C22_DeniedMicRejectsOnly ==
  [][ lastOp' = "getUserMediaRejected" =>
        /\ raised'
        /\ isMicActive' = isMicActive
        /\ UNCHANGED << senders, replaceQ, localStream, liveTracks >>
        /\ UNCHANGED << chReady, isConnected, pcClosed >>
        /\ UNCHANGED << activeResponse, audioQueue, isPlaying >>
        /\ UNCHANGED << wire, sendCalls >>
    ]_vars

\* capture was denied while a response was in flight: the call rejected,
\* the mic is off, the sender has no track, the response is still tracked
C22_Witness ==
  /\ lastOp = "getUserMediaRejected"
  /\ raised
  /\ ~isMicActive
  /\ senders = << 0 >>
  /\ activeResponse # NULL
  /\ chReady = "open"

\* ------------------------------------------------- claims on the handshake
\* C23: once the setup handshake has failed (the signaling endpoint
\* answered with an error status, or a setup step raised), the connection
\* state the facade reports is failed; the signaling endpoint is called at
\* most once.
C23_FailedSetupReportsFailed ==
  /\ setup = "failed" => connectionState = "failed"
  /\ signalingCalls <= 1

\* ------------------------------------------ claims on inbound edge cases
\* C24: the step that receives an undecodable message changes nothing of
\* the session (tracker, playback queue, registry, transport, mic, wire),
\* emits nothing and lets no exception out; the state later messages find
\* is therefore the one they would have found without it.
C24_UndecodableIsDiscarded ==
  [][ lastOp' = "undecodable" =>
        /\ UNCHANGED << trackerVars, audioVars, transportVars, micVars >>
        /\ UNCHANGED << eventHandlers, registered, wire, sendCalls >>
        /\ UNCHANGED << lastEmit, lastInvoked, lastPayload >>
        /\ ~raised'
    ]_vars

\* an undecodable message arrived while a response was tracked, a fragment
\* was queued behind the one being rendered and handlers were registered
C24_Witness ==
  /\ lastOp = "undecodable"
  /\ activeResponse # NULL
  /\ audioQueue # << >> /\ rendering # {}
  /\ eventHandlers # << >>

\* C25: the step that receives an error event invokes the handlers
\* registered for "error" with the payload as received, and changes
\* neither the tracker, the playback queue, the mic, the connection and
\* channel, nor the wire.
C25_ErrorForwardedOnly ==
  [][ lastOp' = "error" =>
        /\ lastEmit' = "error"
        /\ lastPayload' = "-"
        /\ Range(lastInvoked') =
             { h \in Handlers : << "error", h >> \in registered }
        /\ UNCHANGED << activeResponse, audioQueue, isPlaying, rendering >>
        /\ UNCHANGED << micVars, transportVars >>
        /\ UNCHANGED << wire, sendCalls >>
    ]_vars

\* an error event arrived during a tracked response with audio queued and
\* was handed to both handlers
C25_Witness ==
  /\ lastOp = "error"
  /\ lastPayload = "-"
  /\ lastInvoked = << "h2", "h1" >>
  /\ activeResponse = "r1"
  /\ audioQueue # << >>

\* --------------------------------------- claims on the capture (second)
\* the step in which a captureAndSend() call gets past enableAudio() and
\* runs its cancelResponse() line
CancelLineStep ==
  /\ lastOp' \in {"captureAndSend", "captureStarted", "captureResumed"}
  /\ capturing'.image = capturing.image
  /\ capturing'.play <= capturing.play

\* C26: when captureAndSend() reaches its cancel line on an open channel,
\* it puts a response.cancel on the wire if a response is in flight and
\* nothing if none is, and in both cases the call goes on to the
\* screenshot, after which it sends conversation.item.create and
\* response.create.
C26_CaptureCancelsFirst ==
  [][ (CancelLineStep /\ dataChannel /\ chReady = "open") =>
        /\ activeResponse # NULL =>
             wire' = Append(wire, WireMsg("response.cancel", sendCalls + 1))
        /\ activeResponse = NULL => wire' = wire
        /\ capturing'.shot = capturing.shot + 1
    ]_vars

\* ------------------------------------------- claims on the setup order
\* position of a step in the setup log, 0 if it has not happened
Pos(step) ==
  IF \E i \in DOMAIN setupLog : setupLog[i] = step
  THEN CHOOSE i \in DOMAIN setupLog : setupLog[i] = step
  ELSE 0

Before(a, b) == Pos(b) > 0 => (Pos(a) > 0 /\ Pos(a) < Pos(b))

\* C27: the inbound-track handler is registered and the audio sender is
\* pre-allocated before the channel is created; setLocalDescription comes
\* before the signaling call; setRemoteDescription is called only after
\* signaling answered with success; the connection and the channel are
\* handed to the facade only after setRemoteDescription, and until then
\* send() reaches no channel.
C27_SetupOrder ==
  /\ Before("ontrack", "createDataChannel")
  /\ Before("addTransceiver", "createDataChannel")
  /\ Before("setLocalDescription", "fetch")
  /\ Before("answerOk", "setRemoteDescription")
  /\ Pos("answerError") > 0 => Pos("setRemoteDescription") = 0
  /\ Before("setRemoteDescription", "expose")
  /\ (pc \/ dataChannel) => Pos("expose") > 0
  /\ Pos("expose") = 0 =>
       \A i \in DOMAIN wire : wire[i].type \notin UiEvents

\* setup ran to its end in order; a send() made before the channel was
\* handed to the facade had been dropped
C27_Witness ==
  /\ lastOp = "remoteSet"
  /\ 1 \in dropped
  /\ pc /\ dataChannel
  /\ setupLog = << "ontrack", "addTransceiver", "createDataChannel",
                   "createOffer", "setLocalDescription", "fetch", "answerOk",
                   "setRemoteDescription", "expose" >>

\* ------------------------------------- claims on the tracker (second)
\* C28 (as stated): after a response.created the tracker holds an id, the
\* id of that event.
C28_CreatedAlwaysTracks ==
  lastOp = "response.created" =>
    (activeResponse # NULL /\ activeResponse = lastPayload)

\* C28 (amended): a response.created that carries an id leaves the tracker
\* holding that id, whatever it held before; a response.created without an
\* id leaves the tracker as it was; one response-ended event leaves the
\* tracker idle whatever number of response.created events came before.
C28_IdOverwrittenNotCounted ==
  [][ /\ (lastOp' = "response.created" /\ lastPayload' # NoId)
           => activeResponse' = lastPayload'
      /\ (lastOp' = "response.created" /\ lastPayload' = NoId)
           => activeResponse' = activeResponse
      /\ lastOp' \in ResetTypes \cup {"response.done"}
           => activeResponse' = NULL
    ]_vars

\* response.created r2 arrived while r1 was tracked: the tracker holds r2
C28_Witness ==
  /\ lastOp = "response.created"
  /\ lastPayload = "r2"
  /\ emitSaw.tracker = "r1"
  /\ activeResponse = "r2"

\* --------------------------------------------- claims on the mic (third)
\* C29 (as stated): when stopMic() returns from a state where the mic was
\* active, the one sender is present with a null track, the tracks of the
\* held capture stream are stopped, no stream is held and mic-active is
\* false.
C29_StopMicLeavesNullTrack ==
  [][ (lastOp' = "stopMic" /\ isMicActive) =>
        /\ Len(senders') = 1 /\ senders'[1] = 0
        /\ localStream \notin liveTracks'
        /\ localStream' = 0
        /\ ~isMicActive'
    ]_vars

\* C29 (amended): when stopMic() returns from a state where the mic was
\* active, the one sender is present and either its track is null already
\* or the last operation pending on it is a replacement by null; the
\* tracks of the held capture stream are stopped, no stream is held and
\* mic-active is false; when a pending replacement by null settles, the
\* sender is present with a null track.
C29_StopMicQueuesNullTrack ==
  [][ /\ (lastOp' = "stopMic" /\ isMicActive) =>
           /\ Len(senders') = 1
           /\ \/ senders'[1] = 0
              \/ /\ replaceQ' # << >>
                 /\ replaceQ'[Len(replaceQ')].track = 0
           /\ localStream \notin liveTracks'
           /\ localStream' = 0
           /\ ~isMicActive'
      /\ (/\ lastOp' = "replaceTrackSettled"
          /\ replaceQ # << >>
          /\ Head(replaceQ).track = 0) =>
           (Len(senders') = 1 /\ senders'[1] = 0)
    ]_vars

\* the replacement by null that stopMic() started on a live mic has
\* settled: the sender is there without a track, nothing is captured
C29_Witness ==
  /\ lastOp = "replaceTrackSettled"
  /\ senders = << 0 >>
  /\ replaceQ = << >>
  /\ micStarts = 1
  /\ liveTracks = {} /\ localStream = 0
  /\ ~isMicActive

\* ------------------------------------- claims on the fragments (second)
\* the step enqueued one fragment at the tail; with a drain active nothing
\* else changed, with none active a drain started and took the head of
\* the queue to render
FragmentAppended ==
  /\ fragCount' = fragCount + 1
  /\ isPlaying'
  /\ \E f \in {fragCount', 0 - fragCount'} :
       LET q == Append(audioQueue, f)
       IN  IF isPlaying
           THEN audioQueue' = q /\ rendering' = rendering
           ELSE audioQueue' = Tail(q) /\ rendering' = rendering \cup {Head(q)}

NothingAppended == UNCHANGED << audioQueue, isPlaying, rendering, fragCount >>

\* C30: every audio-fragment event is forwarded to the bus; one whose
\* payload decodes to samples appends one fragment at the tail and starts
\* a drain only if none is active; one whose payload is empty or
\* undecodable leaves the queue and the active flag as they were; one
\* whose payload is a non-empty text that decodes to no samples does one or
\* the other.
C30_FragmentEventEnqueuesOne ==
  [][ lastOp' \in AudioTypes =>
        /\ lastEmit' = lastOp'
        /\ lastPayload' = "ok" => FragmentAppended
        /\ lastPayload' \in {"empty", "bad"} => NothingAppended
        /\ lastPayload' = "zero" => (FragmentAppended \/ NothingAppended)
    ]_vars

\* C31: in every reachable state in which the queue is not empty or the
\* active flag is set, a drain loop is left to consume the queue: a loop is
\* awaiting the end of a render it started (every state in which no loop
\* awaits a render has an empty queue and a clear flag).
C31_QueueAlwaysHasDrain ==
  (audioQueue # << >> \/ isPlaying) => rendering # {}

\* ---------------------------------------------- claims on the mic (second)
\* no startMic() call is suspended at getUserMedia() or at replaceTrack()
NoStartMicPending ==
  \A k \in DOMAIN micTasks : micTasks[k] \notin {"getUserMedia", "replaceTrack"}

\* C32: in every state that a stopMic() call has just produced and in which
\* no startMic() call is pending, no capture track obtained by the session
\* is live, whatever startMic() and stopMic() calls came before.
C32_StopMicStopsEveryTrack ==
  (lastOp = "stopMic" /\ NoStartMicPending) => liveTracks = {}

\* the operations that turn the mic off
StopOps == {"stopMic", "cleanup", "cleanupAgain"}

\* the step is the continuation of a suspended startMic() call
StartMicResumes ==
  /\ lastOp' \in {"getUserMediaResolved", "replaceTrackSettled"}
  /\ micTasks' # micTasks

\* C33: when a suspended startMic() call resumes right after stopMic() or
\* cleanup() has run, the continuation leaves mic-active false, and once no
\* startMic() call is pending no capture track is live.
C33_StoppedMicStaysOff ==
  [][ (lastOp \in StopOps /\ StartMicResumes) =>
        /\ ~isMicActive'
        /\ NoStartMicPending' => liveTracks' = {}
    ]_vars

\* ------------------------------------------------------ claims on teardown
\* C34: once cleanup() has run and has closed the connection (it alone
\* sets the connection state to closed), no step starts the render of a
\* fragment.
C34_NoRenderAfterCleanup ==
  [][ (connectionState = "closed" /\ pcClosed) => renderLog' = renderLog
    ]_vars

\* ------------------------------------------ claims on the cancel (second)
\* the latest step was a stopMic() call that put a response.cancel on the
\* wire for the response the tracker holds
CancelJustSent ==
  /\ lastOp = "stopMic"
  /\ activeResponse # NULL
  /\ wire # << >>
  /\ wire[Len(wire)].type = "response.cancel"

\* C35: a stopMic() call that comes right after a stopMic() call that sent
\* the cancel for the response in flight, with no response-started or
\* response-ended event between the two, puts nothing on the wire.
C35_OneCancelPerResponse ==
  [][ (CancelJustSent /\ lastOp' = "stopMic") => wire' = wire ]_vars

\* --------------------------------------------- claims on captures (second)
\* C36: every conversation.item.create on the wire is immediately followed
\* by the response.create that the same invocation sent right after it
\* (the next send() call), whatever captures overlap and whatever stopMic()
\* calls come between them.
C36_PairsAreAdjacent ==
  \A i \in DOMAIN wire :
    wire[i].type = "conversation.item.create" =>
      /\ i < Len(wire)
      /\ wire[i + 1] = WireMsg("response.create", wire[i].id + 1)

\* two captures have sent, the second one after the first: both pairs are
\* on the wire behind the session configuration
C36_Witness ==
  /\ lastOp = "captureAndSend"
  /\ Len(wire) = 5
  /\ wire[2].type = "conversation.item.create"
  /\ wire[4].type = "conversation.item.create"

\* ------------------------------------------- claims on the mic and setup
\* C37: a startMic() call made while the setup handshake has not completed,
\* or after it has failed, starts no capture request and no track
\* replacement, leaves the mic state as it was with mic-active false, and
\* raises nothing.
C37_StartMicBeforeSetupIsNoOp ==
  [][ (lastOp' = "startMic" /\ setup # "done") =>
        /\ UNCHANGED << micStarts, micTasks, replaceQ, liveTracks,
                        localStream, senders >>
        /\ ~isMicActive'
        /\ ~raised'
    ]_vars

\* startMic() was called after the signaling endpoint had refused
C37_Witness ==
  /\ lastOp = "startMic"
  /\ setup = "failed"
  /\ micTasks = << >>
  /\ ~isMicActive

\* ------------------------------------------ claims on teardown (second)
\* C38: when the component has unmounted during the signaling round trip
\* and the continuation of the handshake has run to its end, the peer
\* connection is closed, the channel is closed and the facade does not
\* report a connection.
C38_EarlyUnmountTearsDown ==
  (scopeEnded /\ setup = "done") =>
    /\ pcClosed
    /\ chReady = "closed"
    /\ ~isConnected
    /\ connectionState = "closed"

\* ------------------------------------------ claims on the connected flag
\* C39: in every reachable state in which isConnected is true, the channel
\* state is set and the channel is open, so that send(event) transmits.
C39_ConnectedMeansOpen ==
  isConnected => channelReady(dataChannel, chReady)

\* ------------------------------------------- claims on the bus (second)
\* C40: every emit ends, and no handler is invoked twice by one emit, also
\* when the handlers call on or off for the dispatched type.
C40_EmitEndsOncePerHandler ==
  /\ lastOp # "emitRunning"
  /\ NoDuplicates(lastInvoked)

====
